---- MODULE Spec2Model ----
(***************************************************************************)
(* Model of signalk-marinetraffic-api (src/index.js): the plugin's         *)
(* start/stop scheduling of fetches, the batch translator                  *)
(* marineTrafficToDeltas and the record normalizer getVesselDelta with its *)
(* mapping table.                                                          *)
(*                                                                         *)
(* JavaScript values are tagged records:                                   *)
(*   [t |-> "undefined"], [t |-> "null"], [t |-> "nan"],                   *)
(*   [t |-> "number", n |-> Int, unit |-> factor]   n * factor             *)
(*   [t |-> "string", s |-> sequence of characters]                        *)
(*   [t |-> "object", o |-> record of properties]                          *)
(*   [t |-> "array",  a |-> sequence of values]                            *)
(* A string is a sequence of one-character strings; a word that no         *)
(* operation looks into ("motoring") is carried as one element.            *)
(***************************************************************************)
EXTENDS Integers, Sequences, FiniteSets, TLC

VARIABLES
    vessel,          \* SpecDelta: the raw record handed to getVesselDelta
    delta,           \* SpecDelta: what getVesselDelta returned for it
    response,        \* SpecBatch: the response text handed to marineTrafficToDeltas
    simpleTimeout,   \* handle of the "simple" interval timer, 0 = undefined
    extendedTimeout, \* handle of the "extended" interval timer, 0 = undefined
    fullTimeout,     \* handle of the "full" interval timer, 0 = undefined
    intervals,       \* live setInterval timers of the event loop
    pending,         \* GET requests whose promise has not settled
    handled,         \* calls of app.handleMessage, in order
    lastCall,        \* the latest marineTrafficToDeltas call: request, payload, threw
    started,         \* TRUE from plugin.start until plugin.stop returns
    nStarts,         \* number of plugin.start calls so far
    nextReq          \* number of the next GET request

vars == <<vessel, delta, response, simpleTimeout, extendedTimeout, fullTimeout, intervals,
          pending, handled, lastCall, started, nStarts, nextReq>>

(***************************** bounds **************************************)
MaxStatus == 16     \* STATUS codes -1 .. MaxStatus are tried
MaxOffset == 2      \* offsets A, B, C, D range over 0 .. MaxOffset
MaxBatch == 2       \* records per response
MaxHandled == 3     \* app.handleMessage calls followed
MaxStarts == 2      \* plugin.start calls followed
MaxRequests == 2    \* GET requests issued

(************************* JavaScript values *******************************)
Undefined == [t |-> "undefined"]
Null == [t |-> "null"]
NaN == [t |-> "nan"]
Num(n) == [t |-> "number", n |-> n, unit |-> "1"]
Str(s) == [t |-> "string", s |-> s]
Obj(o) == [t |-> "object", o |-> o]
Arr(a) == [t |-> "array", a |-> a]

Digits == <<"0", "1", "2", "3", "4", "5", "6", "7", "8", "9">>

IsDigit(c) == \E i \in 1..10 : Digits[i] = c

DigitVal(c) == (CHOOSE i \in 1..10 : Digits[i] = c) - 1

RECURSIVE NatToStr(_)
NatToStr(n) == IF n < 10 THEN <<Digits[n + 1]>>
               ELSE NatToStr(n \div 10) \o <<Digits[(n % 10) + 1]>>

\* Number.prototype.toString for integers
NumToStr(n) == IF n < 0 THEN <<"-">> \o NatToStr(-n) ELSE NatToStr(n)

RECURSIVE DigitsToNat(_)
DigitsToNat(s) == IF s = <<>> THEN 0
                  ELSE 10 * DigitsToNat(SubSeq(s, 1, Len(s) - 1)) + DigitVal(s[Len(s)])

AllDigits(s) == Len(s) > 0 /\ \A i \in 1..Len(s) : IsDigit(s[i])

\* Number(string): "" is 0, a decimal integer is its value, anything else NaN
StrToNum(s) ==
    IF s = <<>> THEN Num(0)
    ELSE IF AllDigits(s) THEN Num(DigitsToNat(s))
    ELSE IF s[1] = "-" /\ AllDigits(Tail(s)) THEN Num(-DigitsToNat(Tail(s)))
    ELSE NaN

\* ToNumber
ToNumber(v) ==
    CASE v.t = "number" -> v
      [] v.t = "null" -> Num(0)
      [] v.t = "string" -> StrToNum(v.s)
      [] OTHER -> NaN

\* ToString
ToStr(v) ==
    CASE v.t = "string" -> v.s
      [] v.t = "number" -> IF v.unit = "1" THEN NumToStr(v.n) ELSE <<v.unit>> \o NumToStr(v.n)
      [] v.t = "null" -> <<"null">>
      [] v.t = "undefined" -> <<"undefined">>
      [] v.t = "nan" -> <<"NaN">>
      [] OTHER -> <<"[object Object]">>

\* a + b: concatenation as soon as one operand is a string, else numeric
Plus(a, b) ==
    IF a.t = "string" \/ b.t = "string" THEN Str(ToStr(a) \o ToStr(b))
    ELSE LET x == ToNumber(a)
             y == ToNumber(b)
         IN IF x.t = "nan" \/ y.t = "nan" THEN NaN ELSE Num(x.n + y.n)

\* v == k for a number literal k (abstract equality)
LooseEq(v, k) ==
    CASE v.t = "number" -> v.unit = "1" /\ v.n = k
      [] v.t = "string" -> StrToNum(v.s) = Num(k)
      [] OTHER -> FALSE

\* v == null
IsNullish(v) == v.t \in {"null", "undefined"}

\* v * factor and v / divisor, the factor kept symbolic in unit
Scale(v, unit) ==
    LET x == ToNumber(v)
    IN IF x.t = "nan" THEN NaN ELSE [t |-> "number", n |-> x.n, unit |-> unit]

Truthy(v) ==
    CASE v.t \in {"undefined", "null", "nan"} -> FALSE
      [] v.t = "number" -> v.n # 0
      [] v.t = "string" -> v.s # <<>>
      [] OTHER -> TRUE

\* property read v[k] of a non-nullish value
Get(v, k) == IF v.t = "object" /\ k \in DOMAIN v.o THEN v.o[k] ELSE Undefined

RECURSIVE DigitPrefix(_)
DigitPrefix(s) == IF s = <<>> \/ ~IsDigit(s[1]) THEN <<>>
                  ELSE <<s[1]>> \o DigitPrefix(Tail(s))

\* parseFloat: the longest numeric prefix of the text (integers only: the
\* records tried carry no fractional digits)
parseFloat(v) ==
    IF v.t = "number" THEN v
    ELSE LET s == ToStr(v)
             neg == s # <<>> /\ s[1] = "-"
             body == DigitPrefix(IF neg THEN Tail(s) ELSE s)
         IN IF body = <<>> THEN NaN
            ELSE Num(IF neg THEN -DigitsToNat(body) ELSE DigitsToNat(body))

(************************** conversions ************************************)
\* degrees * (Math.PI/180.0)
degsToRadC(v, degrees) == Scale(degrees, "PI/180")

\* val + "Z"
convertTime(v, val) == Plus(val, Str(<<"Z">>))

\* '' + num
numberToString(v, num) == Plus(Str(<<>>), num)

\* stateMapping with the rows of codes 1 and 5 exchanged
stateMappingSwapped ==
    (<<"0">> :> Str(<<"motoring">>)) @@
    (<<"1">> :> Str(<<"moored">>)) @@
    (<<"2">> :> Str(<<"not under command">>)) @@
    (<<"3">> :> Str(<<"restricted manouverability">>)) @@
    (<<"4">> :> Str(<<"constrained by draft">>)) @@
    (<<"5">> :> Str(<<"anchored">>)) @@
    (<<"6">> :> Str(<<"aground">>)) @@
    (<<"7">> :> Str(<<"fishing">>)) @@
    (<<"8">> :> Str(<<"sailing">>)) @@
    (<<"9">> :> Str(<<"hazardous material high speed">>)) @@
    (<<"1", "0">> :> Str(<<"hazardous material wing in ground">>)) @@
    (<<"1", "4">> :> Str(<<"ais-sart">>)) @@
    (<<"1", "5">> :> Undefined)

stateMapping ==
    (<<"0">> :> Str(<<"motoring">>)) @@
    (<<"1">> :> Str(<<"anchored">>)) @@
    (<<"2">> :> Str(<<"not under command">>)) @@
    (<<"3">> :> Str(<<"restricted manouverability">>)) @@
    (<<"4">> :> Str(<<"constrained by draft">>)) @@
    (<<"5">> :> Str(<<"moored">>)) @@
    (<<"6">> :> Str(<<"aground">>)) @@
    (<<"7">> :> Str(<<"fishing">>)) @@
    (<<"8">> :> Str(<<"sailing">>)) @@
    (<<"9">> :> Str(<<"hazardous material high speed">>)) @@
    (<<"1", "0">> :> Str(<<"hazardous material wing in ground">>)) @@
    (<<"1", "4">> :> Str(<<"ais-sart">>)) @@
    (<<"1", "5">> :> Undefined)

\* table[val]: the key is ToString(val), a missing key reads undefined
Lookup(table, val) ==
    IF ToStr(val) \in DOMAIN table THEN table[ToStr(val)] ELSE Undefined

\* schema.getAISShipTypeName of @signalk/signalk-schema, for the codes tried
aisShipTypeNames ==
    (<<"3", "0">> :> Str(<<"Fishing">>)) @@
    (<<"7", "0">> :> Str(<<"Cargo ship">>))

getAISShipTypeName(val) == Lookup(aisShipTypeNames, val)

courseConversion(v, val) ==
    IF LooseEq(val, 360) THEN Null ELSE degsToRadC(v, val)

headingConversion(v, val) ==
    IF LooseEq(val, 511) THEN Null ELSE degsToRadC(v, val)

fromBowConversion(v, val) ==
    LET length == Plus(Get(v, "A"), Get(v, "B"))
    IN IF LooseEq(length, 0) THEN Null ELSE val

\* (to_starboard - width/2) * -1 and width/2 - to_starboard, in halves
fromCenterConversion(v, val) ==
    LET to_starboard == Get(v, "D")
        to_port == Get(v, "C")
        width == Plus(to_port, to_starboard)
        w == ToNumber(width)
        d == ToNumber(to_starboard)
    IN IF LooseEq(width, 0) THEN Null
       ELSE IF w.t = "nan" \/ d.t = "nan" THEN NaN
       ELSE IF 2 * d.n > w.n
            THEN [t |-> "number", n |-> (2 * d.n - w.n) * (-1), unit |-> "1/2"]
            ELSE [t |-> "number", n |-> w.n - 2 * d.n, unit |-> "1/2"]

lengthConversion(v, to_bow) ==
    LET to_stern == Get(v, "B")
        length == Plus(to_stern, to_bow)
    IN IF LooseEq(length, 0) THEN Null ELSE Obj([overall |-> length])

beamConversion(v, to_port) ==
    LET to_starboard == Get(v, "D")
        beam == Plus(to_port, to_starboard)
    IN IF LooseEq(beam, 0) THEN Null ELSE beam

draftConversion(v, val) ==
    IF LooseEq(val, 0) THEN Null ELSE Obj([maximum |-> Scale(val, "1/10")])

positionConversion(v, val) ==
    Obj([latitude |-> parseFloat(val), longitude |-> parseFloat(Get(v, "LON"))])

speedConversion(v, val) == Scale(val, "0.514444/10")

shipTypeConversion(v, val) ==
    LET name == getAISShipTypeName(val)
    IN IF Truthy(name) THEN Obj([id |-> val, name |-> name]) ELSE Null

stateConversion(v, val) ==
    LET res == Lookup(stateMapping, val)
    IN IF Truthy(res) THEN res ELSE Undefined

logTripConversion(v, val) == Scale(val, "1/1852")

\* mapping.conversion(vessel, val)
Convert(name, v, val) ==
    CASE name = "numberToString" -> numberToString(v, val)
      [] name = "course" -> courseConversion(v, val)
      [] name = "heading" -> headingConversion(v, val)
      [] name = "fromBow" -> fromBowConversion(v, val)
      [] name = "fromCenter" -> fromCenterConversion(v, val)
      [] name = "length" -> lengthConversion(v, val)
      [] name = "beam" -> beamConversion(v, val)
      [] name = "draft" -> draftConversion(v, val)
      [] name = "position" -> positionConversion(v, val)
      [] name = "speed" -> speedConversion(v, val)
      [] name = "shipType" -> shipTypeConversion(v, val)
      [] name = "state" -> stateConversion(v, val)
      [] name = "convertTime" -> convertTime(v, val)
      [] name = "logTrip" -> logTripConversion(v, val)

\* conversion "" is a rule without a conversion
Rule(path, key, root, conversion) ==
    [path |-> path, key |-> key, root |-> root, conversion |-> conversion]

mappings == <<
    Rule("mmsi", "MMSI", TRUE, "numberToString"),
    Rule("name", "SHIPNAME", TRUE, ""),
    Rule("callsign", "CALLSIGN", TRUE, ""),
    Rule("imo", "IMO", TRUE, "numberToString"),
    Rule("navigation.courseOverGroundTrue", "COURSE", FALSE, "course"),
    Rule("navigation.headingTrue", "HEADING", FALSE, "heading"),
    Rule("navigation.destination.commonName", "DESTINATION", FALSE, ""),
    Rule("sensors.ais.fromBow", "A", FALSE, "fromBow"),
    Rule("sensors.ais.fromCenter", "C", FALSE, "fromCenter"),
    Rule("design.length", "A", FALSE, "length"),
    Rule("design.beam", "C", FALSE, "beam"),
    Rule("design.draft", "DRAUGHT", FALSE, "draft"),
    Rule("navigation.position", "LAT", FALSE, "position"),
    Rule("navigation.speedOverGround", "SPEED", FALSE, "speed"),
    Rule("design.aisShipType", "SHIPTYPE", FALSE, "shipType"),
    Rule("navigation.state", "STATUS", FALSE, "state"),
    Rule("navigation.courseGreatCircle.activeRoute.estimatedTimeOfArrival", "ETA",
         FALSE, "convertTime"),
    Rule("navigation.logTrip", "DISTANCE_TRAVELLED", FALSE, "logTrip") >>

(************************* record normalizer *******************************)
\* delta.updates[0].values.push({path, value}) unless value is undefined
addValue(d, path, value) ==
    IF value.t # "undefined"
    THEN [d EXCEPT !.updates[1].values = Append(@, [path |-> path, value |-> value])]
    ELSE d

\* applyMapping, but a root-level value is merged into the entry with the
\* empty path when there is one
applyMappingMerging(v, d, mapping) ==
    LET val == Get(v, mapping.key)
        values == d.updates[1].values
        roots == {i \in 1..Len(values) : values[i].path = ""}
    IN IF val.t = "undefined" THEN d
       ELSE IF val.t = "string" /\ Len(val.s) = 0 THEN d
       ELSE LET conv == IF mapping.conversion # ""
                        THEN Convert(mapping.conversion, v, val)
                        ELSE val
            IN IF mapping.conversion # "" /\ IsNullish(conv) THEN d
               ELSE IF mapping.root /\ roots # {}
                    THEN LET i == CHOOSE r \in roots : TRUE
                         IN [d EXCEPT !.updates[1].values[i].value =
                                Obj((mapping.path :> conv) @@ @.o)]
               ELSE IF mapping.root
                    THEN addValue(d, "", Obj((mapping.path :> conv)))
                    ELSE addValue(d, mapping.path, conv)

\* the body of mappings.forEach for one mapping
applyMapping(v, d, mapping) ==
    LET val == Get(v, mapping.key)
    IN IF val.t = "undefined" THEN d
       ELSE IF val.t = "string" /\ Len(val.s) = 0 THEN d
       ELSE LET conv == IF mapping.conversion # ""
                        THEN Convert(mapping.conversion, v, val)
                        ELSE val
            IN IF mapping.conversion # "" /\ IsNullish(conv) THEN d
               ELSE IF mapping.root
                    THEN addValue(d, "", Obj((mapping.path :> conv)))
                    ELSE addValue(d, mapping.path, conv)

RECURSIVE forEachMapping(_, _, _)
forEachMapping(v, d, i) ==
    IF i > Len(mappings) THEN d
    ELSE forEachMapping(v, applyMapping(v, d, mappings[i]), i + 1)

\* [threw |-> TRUE] when reading vessel.MMSI raises a TypeError
getVesselDelta(v) ==
    IF IsNullish(v) THEN [threw |-> TRUE, delta |-> Undefined]
    ELSE [threw |-> FALSE,
          delta |-> forEachMapping(v,
              [context |-> Plus(Str(<<"vessels.urn:mrn:imo:mmsi:">>), Get(v, "MMSI")),
               updates |-> << [timestamp |-> convertTime(v, Get(v, "TIMESTAMP")),
                               source |-> [label |-> Plus(Str(<<"marinetraffic-">>),
                                                          Get(v, "DSRC"))],
                               values |-> <<>>] >>],
              1)]

(************************** batch translator *******************************)
\* v[0]
Index0(v) ==
    CASE v.t = "array" -> IF Len(v.a) > 0 THEN v.a[1] ELSE Undefined
      [] v.t = "string" -> IF Len(v.s) > 0 THEN Str(<<v.s[1]>>) ELSE Undefined
      [] OTHER -> Undefined

\* the response text is carried as the value it parses to; text that is not
\* JSON makes JSON.parse throw a SyntaxError
Malformed == [t |-> "malformed"]

JSONparse(text) ==
    IF text = Malformed THEN [threw |-> TRUE, value |-> Undefined]
    ELSE [threw |-> FALSE, value |-> text]

\* forEachVessel, but walking the array from its last element to its first
RECURSIVE forEachVesselBackwards(_, _, _)
forEachVesselBackwards(hub, i, out) ==
    IF i > Len(hub) THEN [threw |-> FALSE, out |-> out]
    ELSE LET k == Len(hub) + 1 - i
             d == getVesselDelta(hub[k])
         IN IF d.threw THEN [threw |-> TRUE, out |-> out]
            ELSE IF d.delta = Null \/ d.delta = Undefined
                 THEN forEachVesselBackwards(hub, i + 1, out)
                 ELSE forEachVesselBackwards(hub, i + 1,
                                             Append(out, [idx |-> k, delta |-> d.delta]))

\* hub.forEach(vessel => ...) from element i on; out is what app.handleMessage
\* has been given so far. An exception in the callback ends the loop.
RECURSIVE forEachVessel(_, _, _)
forEachVessel(hub, i, out) ==
    IF i > Len(hub) THEN [threw |-> FALSE, out |-> out]
    ELSE LET d == getVesselDelta(hub[i])
         IN IF d.threw THEN [threw |-> TRUE, out |-> out]
            ELSE IF d.delta = Null \/ d.delta = Undefined
                 THEN forEachVessel(hub, i + 1, out)
                 ELSE forEachVessel(hub, i + 1,
                                    Append(out, [idx |-> i, delta |-> d.delta]))

\* [threw, out]: whether an exception leaves the function, and the deltas
\* given to app.handleMessage, each with the index of its record
marineTrafficToDeltas(text) ==
    LET parsed == JSONparse(text)
        hub == parsed.value
        status == hub
    IN IF parsed.threw \/ IsNullish(hub) THEN [threw |-> TRUE, out |-> <<>>]
       ELSE IF Truthy(Get(status, "errors"))
            THEN [threw |-> IsNullish(Index0(Get(status, "errors"))), out |-> <<>>]
       ELSE IF hub.t # "array" THEN [threw |-> TRUE, out |-> <<>>]
       ELSE forEachVessel(hub.a, 1, <<>>)

(****************************** inputs *************************************)
\* a JSON object: the properties of f that are not undefined
Mk(f) == Obj([k \in {x \in DOMAIN f : f[x] # Undefined} |-> f[k]])

TimeText == Str(<<"2017-05-19T09:39:57">>)

OffsetVals ==
    {Undefined, Null, Str(<<>>)} \cup {Num(n) : n \in 0..MaxOffset}
        \cup {Str(NumToStr(n)) : n \in 0..MaxOffset}

StatusVals ==
    {Null, Str(<<>>)} \cup {Num(n) : n \in -1..MaxStatus}
        \cup {Str(NumToStr(n)) : n \in -1..MaxStatus}

IdentVessels ==
    {Mk([MMSI |-> m, IMO |-> i, SHIPNAME |-> n, CALLSIGN |-> c, TIMESTAMP |-> ts,
         DSRC |-> Str(<<"TER">>)]) :
        m \in {Undefined, Null, Str(<<>>), Str(<<"2", "1">>), Num(21)},
        i \in {Undefined, Null, Str(<<>>), Str(<<"9", "0">>)},
        n \in {Undefined, Null, Str(<<>>), Str(<<"NORDIC">>)},
        c \in {Undefined, Str(<<"LA1">>)},
        ts \in {Undefined, TimeText}}

LengthVessels ==
    {Mk([MMSI |-> Str(<<"2", "1">>), A |-> a, B |-> b]) :
        a \in OffsetVals, b \in OffsetVals}

BeamVessels ==
    {Mk([MMSI |-> Str(<<"2", "1">>), C |-> c, D |-> d]) :
        c \in OffsetVals, d \in OffsetVals}

StatusVessels == {Mk([MMSI |-> Str(<<"2", "1">>), STATUS |-> st]) : st \in StatusVals}

NavVessels ==
    {Mk([MMSI |-> Str(<<"2", "1">>), COURSE |-> c, HEADING |-> h, DESTINATION |-> d,
         DRAUGHT |-> dr]) :
        c \in {Undefined, Null, Num(360), Str(<<"3", "6", "0">>), Num(327)},
        h \in {Undefined, Num(511), Str(<<"3", "2", "9">>)},
        d \in {Undefined, Null, Str(<<>>), Str(<<"OSLO">>)},
        dr \in {Undefined, Num(0), Str(<<"0">>), Num(55)}}

VoyageVessels ==
    {Mk([MMSI |-> Num(21), LAT |-> la, LON |-> lo, SPEED |-> sp, SHIPTYPE |-> ty,
         ETA |-> e, DISTANCE_TRAVELLED |-> dt]) :
        la \in {Undefined, Str(<<"4", "7">>)},
        lo \in {Undefined, Str(<<"-", "5">>)},
        sp \in {Undefined, Str(<<"7", "4">>)},
        ty \in {Undefined, Num(70), Str(<<"3", "0">>), Num(999)},
        e \in {Undefined, Null, TimeText},
        dt \in {Undefined, Num(1852)}}

\* what a batch element can be: records, and JSON values that are no record
Vessels ==
    IdentVessels \cup LengthVessels \cup BeamVessels \cup StatusVessels
        \cup NavVessels \cup VoyageVessels \cup {Null, Num(5)}

NotCalled == [called |-> FALSE, threw |-> FALSE, delta |-> Undefined]

\* the elements of the batches tried: records with and without MMSI, and
\* JSON values that are no record
BatchRecords ==
    {Null, Num(5), Str(<<"x">>),
     Mk([MMSI |-> Str(<<"2", "1">>), TIMESTAMP |-> TimeText, DSRC |-> Str(<<"TER">>)]),
     Mk([MMSI |-> Num(22), IMO |-> Str(<<"9", "0">>)]),
     Mk([IMO |-> Str(<<"9", "0">>), TIMESTAMP |-> TimeText, DSRC |-> Str(<<"TER">>)]),
     Mk([SHIPNAME |-> Str(<<"NORDIC">>)])}

\* the records of the batches the plugin is followed on
PluginRecords ==
    {Mk([MMSI |-> Str(<<"2", "1">>), TIMESTAMP |-> TimeText, DSRC |-> Str(<<"TER">>)]),
     Mk([MMSI |-> Num(22), IMO |-> Str(<<"9", "0">>)])}

Batches(records) == UNION {[1..n -> records] : n \in 0..MaxBatch}

ErrorDetail == Obj([detail |-> Str(<<"bad key">>)])

ErrorEnvelopes ==
    {Obj([errors |-> Arr(<<>>)]),
     Obj([errors |-> Arr(<<ErrorDetail>>)]),
     Obj([errors |-> Arr(<<ErrorDetail, ErrorDetail>>)]),
     Obj([errors |-> Arr(<<Null>>)])}

\* response.text of a settled GET
Responses ==
    {Arr(b) : b \in Batches(BatchRecords)} \cup ErrorEnvelopes
        \cup {Malformed, Null, Obj([message |-> Str(<<"ok">>)])}

PluginResponses ==
    {Arr(b) : b \in Batches(PluginRecords)} \cup {Obj([errors |-> Arr(<<ErrorDetail>>)])}

\* the options of plugin.schema that plugin.start reads (rates in minutes,
\* negative to disable): one choice of rates for each first query of the
\* fleet, and a single-vessel query
Options ==
    {[simpleRate |-> -1, extendedRate |-> -1, fullRate |-> -1, vessel |-> 0],
     [simpleRate |-> 1, extendedRate |-> 1, fullRate |-> -1, vessel |-> 0],
     [simpleRate |-> 1, extendedRate |-> 1, fullRate |-> 1, vessel |-> 0],
     [simpleRate |-> -1, extendedRate |-> -1, fullRate |-> 1, vessel |-> 257]}

\* marineTrafficToDeltas of each response the plugin is followed on
Translated == [r \in PluginResponses |-> marineTrafficToDeltas(r)]

NoCall == [req |-> 0, response |-> Undefined, threw |-> FALSE]

(************************** record normalizer run **************************)
InitDelta ==
    /\ vessel \in Vessels
    /\ delta = NotCalled
    /\ response = Malformed
    /\ simpleTimeout = Undefined
    /\ extendedTimeout = Undefined
    /\ fullTimeout = Undefined
    /\ intervals = {}
    /\ pending = {}
    /\ handled = <<>>
    /\ lastCall = NoCall
    /\ started = FALSE
    /\ nStarts = 0
    /\ nextReq = 1

Normalize ==
    /\ ~delta.called
    /\ delta' = [called |-> TRUE] @@ getVesselDelta(vessel)
    /\ UNCHANGED <<vessel, response, simpleTimeout, extendedTimeout, fullTimeout, intervals,
                   pending, handled, lastCall, started, nStarts, nextReq>>

NextDelta == Normalize

SpecDelta == InitDelta /\ [][NextDelta]_vars

(************************** batch translator run ***************************)
InitBatch ==
    /\ vessel = Null
    /\ delta = NotCalled
    /\ response \in Responses
    /\ simpleTimeout = Undefined
    /\ extendedTimeout = Undefined
    /\ fullTimeout = Undefined
    /\ intervals = {}
    /\ pending = {}
    /\ handled = <<>>
    /\ lastCall = NoCall
    /\ started = FALSE
    /\ nStarts = 0
    /\ nextReq = 1

\* one call marineTrafficToDeltas(response), as request number 1
Translate ==
    /\ lastCall = NoCall
    /\ LET r == marineTrafficToDeltas(response)
       IN /\ handled' = [i \in 1..Len(r.out) |->
                            [req |-> 1, idx |-> r.out[i].idx, delta |-> r.out[i].delta]]
          /\ lastCall' = [req |-> 1, response |-> response, threw |-> r.threw]
    /\ UNCHANGED <<vessel, delta, response, simpleTimeout, extendedTimeout, fullTimeout,
                   intervals, pending, started, nStarts, nextReq>>

NextBatch == Translate

SpecBatch == InitBatch /\ [][NextBatch]_vars

(******************************* plugin ************************************)
Init ==
    /\ vessel = Null
    /\ delta = NotCalled
    /\ response = Malformed
    /\ simpleTimeout = Undefined
    /\ extendedTimeout = Undefined
    /\ fullTimeout = Undefined
    /\ intervals = {}
    /\ pending = {}
    /\ handled = <<>>
    /\ lastCall = NoCall
    /\ started = FALSE
    /\ nStarts = 0
    /\ nextReq = 1

\* the endPoint update builds
endPoint(options, msgType) ==
    IF options.vessel # 0
    THEN [version |-> "v:5", msgtype |-> "", mmsi |-> options.vessel]
    ELSE [version |-> "v:8", msgtype |-> msgType, mmsi |-> 0]

\* update(msgType) of the start call with these options: the GET it issues
update(options, msgType) ==
    [id |-> nextReq, msgType |-> msgType, options |-> options,
     endPoint |-> endPoint(options, msgType)]

\* setInterval(update, rate * 60000, msgType) of start call number n
setInterval(n, options, msgType) ==
    [t |-> "timer", start |-> n, msgType |-> msgType, options |-> options]

firstMsgType(options) ==
    IF options.fullRate > 0 THEN "full"
    ELSE IF options.extendedRate > 0 THEN "extended" ELSE "simple"

\* plugin.start(options)
Start(options) ==
    /\ nStarts < MaxStarts
    /\ nextReq <= MaxRequests
    /\ nStarts' = nStarts + 1
    /\ started' = TRUE
    /\ pending' = pending \cup {update(options, firstMsgType(options))}
    /\ nextReq' = nextReq + 1
    /\ simpleTimeout' = IF options.simpleRate > 0
                        THEN setInterval(nStarts', options, "simple")
                        ELSE simpleTimeout
    /\ extendedTimeout' = IF options.extendedRate > 0
                          THEN setInterval(nStarts', options, "extended")
                          ELSE extendedTimeout
    /\ fullTimeout' = IF options.fullRate > 0
                      THEN setInterval(nStarts', options, "full")
                      ELSE fullTimeout
    /\ intervals' = intervals
           \cup (IF options.simpleRate > 0 THEN {simpleTimeout'} ELSE {})
           \cup (IF options.extendedRate > 0 THEN {extendedTimeout'} ELSE {})
           \cup (IF options.fullRate > 0 THEN {fullTimeout'} ELSE {})
    /\ UNCHANGED <<vessel, delta, response, handled, lastCall>>

\* plugin.stop()
Stop ==
    /\ started' = FALSE
    /\ intervals' = intervals \ {simpleTimeout, extendedTimeout, fullTimeout}
    /\ simpleTimeout' = Undefined
    /\ extendedTimeout' = Undefined
    /\ fullTimeout' = Undefined
    /\ UNCHANGED <<vessel, delta, response, pending, handled, lastCall, nStarts, nextReq>>

\* a live interval timer calls update(msgType)
TimerFires(timer) ==
    /\ timer \in intervals
    /\ nextReq <= MaxRequests
    /\ pending' = pending \cup {update(timer.options, timer.msgType)}
    /\ nextReq' = nextReq + 1
    /\ UNCHANGED <<vessel, delta, response, simpleTimeout, extendedTimeout, fullTimeout,
                   intervals, handled, lastCall, started, nStarts>>

\* the GET's promise is fulfilled: marineTrafficToDeltas(response.text)
ResponseArrives(request, text) ==
    /\ request \in pending
    /\ LET r == Translated[text]
       IN /\ Len(handled) + Len(r.out) <= MaxHandled
          /\ handled' =
                 [i \in 1..(Len(handled) + Len(r.out)) |->
                     IF i <= Len(handled) THEN handled[i]
                     ELSE [req |-> request.id,
                           idx |-> r.out[i - Len(handled)].idx,
                           delta |-> r.out[i - Len(handled)].delta]]
          /\ lastCall' = [req |-> request.id, response |-> text, threw |-> r.threw]
    /\ pending' = pending \ {request}
    /\ UNCHANGED <<vessel, delta, response, simpleTimeout, extendedTimeout, fullTimeout,
                   intervals, started, nStarts, nextReq>>

\* the GET's promise is rejected: no handler is attached, nothing runs
RequestFails(request) ==
    /\ request \in pending
    /\ pending' = pending \ {request}
    /\ UNCHANGED <<vessel, delta, response, simpleTimeout, extendedTimeout, fullTimeout,
                   intervals, handled, lastCall, started, nStarts, nextReq>>

Next ==
    \/ \E options \in Options : Start(options)
    \/ Stop
    \/ \E timer \in intervals : TimerFires(timer)
    \/ \E request \in pending, text \in PluginResponses : ResponseArrives(request, text)
    \/ \E request \in pending : RequestFails(request)

Spec == Init /\ [][Next]_vars

(***************************************************************************)
(* Claims about getVesselDelta, checked under SpecDelta                    *)
(***************************************************************************)
\* getVesselDelta has returned a delta for the record in vessel
Normalized == delta.called /\ ~delta.threw

\* the values list of the delta returned
Values == delta.delta.updates[1].values

\* the values of the entries with this path, in order
ValuesAt(path) ==
    LET at == SelectSeq(Values, LAMBDA e : e.path = path)
    IN [i \in 1..Len(at) |-> at[i].value]

\* the vessel carries this field with a value other than the empty string
Resolvable(key) ==
    /\ vessel.t = "object"
    /\ key \in DOMAIN vessel.o
    /\ vessel.o[key] # Str(<<>>)

\* what each root-level field is to contribute, in table order
RootFields ==
    << [key |-> "MMSI", value |-> [mmsi |-> Str(ToStr(Get(vessel, "MMSI")))]],
       [key |-> "SHIPNAME", value |-> [name |-> Get(vessel, "SHIPNAME")]],
       [key |-> "CALLSIGN", value |-> [callsign |-> Get(vessel, "CALLSIGN")]],
       [key |-> "IMO", value |-> [imo |-> Str(ToStr(Get(vessel, "IMO")))]] >>

ResolvedRootFields == SelectSeq(RootFields, LAMBDA f : Resolvable(f.key))

C3_NoEmptyValue ==
    Normalized =>
        /\ \A i \in 1..Len(Values) : Values[i].value \notin {Null, Undefined, Str(<<>>)}
        /\ \A r \in 1..Len(mappings) :
               Get(vessel, mappings[r].key) \in {Null, Str(<<>>)} =>
                   IF mappings[r].root
                   THEN \A i \in 1..Len(ValuesAt("")) :
                            mappings[r].path \notin DOMAIN ValuesAt("")[i].o
                   ELSE Len(ValuesAt(mappings[r].path)) = 0

\* the STATUS field read as a code: a number, or the decimal text of one
HasStatusCode ==
    /\ vessel.t = "object"
    /\ "STATUS" \in DOMAIN vessel.o
    /\ \/ vessel.o.STATUS.t = "number"
       \/ vessel.o.STATUS.t = "string" /\ StrToNum(vessel.o.STATUS.s).t = "number"
                                       /\ vessel.o.STATUS.s # <<>>

StatusCode == ToNumber(vessel.o.STATUS).n

\* the table of the specification, section 4.1
SpecStateTable ==
    (0 :> "motoring") @@ (1 :> "anchored") @@ (2 :> "not under command") @@
    (3 :> "restricted manoeuvrability") @@ (4 :> "constrained by draft") @@
    (5 :> "moored") @@ (6 :> "aground") @@ (7 :> "fishing") @@ (8 :> "sailing") @@
    (9 :> "hazardous material high speed") @@
    (10 :> "hazardous material wing in ground") @@ (14 :> "ais-sart")

\* the same table with code 3 spelled as the Signal K schema spells it
AmendedStateTable == [SpecStateTable EXCEPT ![3] = "restricted manouverability"]

StateFollows(table) ==
    ValuesAt("navigation.state") =
        IF StatusCode \in DOMAIN table THEN <<Str(<<table[StatusCode]>>)>> ELSE <<>>

\* C7 as stated: the navigation.state emitted for a STATUS code is the one of
\* the specification's table (3 is "restricted manoeuvrability"), and none is
\* emitted for 15 or an unlisted code.
C7_StateTableOfSpec == (Normalized /\ HasStatusCode) => StateFollows(SpecStateTable)

\* C7 amended: the navigation.state emitted for a STATUS code is the one of the
\* specification's table except that 3 gives "restricted manouverability", and
\* none is emitted for 15 or an unlisted code (11, 12, 13, out of range).
C7_StateTableOfCode == (Normalized /\ HasStatusCode) => StateFollows(AmendedStateTable)

\* C7 witness: a record with STATUS 3 was normalized
C7_Witness ==
    /\ Normalized
    /\ HasStatusCode
    /\ StatusCode = 3
    /\ ValuesAt("navigation.state") = <<Str(<<"restricted manouverability">>)>>

\* a field that holds a JSON number or the decimal text of one
IsNumeric(key) ==
    /\ vessel.t = "object"
    /\ key \in DOMAIN vessel.o
    /\ \/ vessel.o[key].t = "number"
       \/ vessel.o[key].t = "string" /\ AllDigits(vessel.o[key].s)

\* C8 as stated: with A and B present as numbers or numeric strings, A+B = 0
\* leaves out design.length and sensors.ais.fromBow, and otherwise
\* design.length is {overall: A+B}, the arithmetic sum.
C8_LengthIsSum ==
    (Normalized /\ IsNumeric("A") /\ IsNumeric("B")) =>
        LET sum == ToNumber(vessel.o.A).n + ToNumber(vessel.o.B).n
        IN IF sum = 0
           THEN /\ ValuesAt("design.length") = <<>>
                /\ ValuesAt("sensors.ais.fromBow") = <<>>
           ELSE ValuesAt("design.length") = <<Obj([overall |-> Num(sum)])>>

(***************************************************************************)
(* Claims about marineTrafficToDeltas, checked under SpecBatch             *)
(***************************************************************************)
\* marineTrafficToDeltas has run on a response that parses to an array
BatchTranslated == lastCall # NoCall /\ lastCall.response.t = "array"

\* the array the latest call walked
Hub == lastCall.response.a

\* app.handleMessage was given a delta for element i of the latest call's array
Delivered(i) ==
    \E k \in 1..Len(handled) : handled[k].req = lastCall.req /\ handled[k].idx = i

IsRecord(v) == v.t = "object"

\* C1 as stated: in a batch of raw records, a delta is delivered for a record
\* if and only if the record carries an MMSI, and no delivered delta has the
\* context 'vessels.urn:mrn:imo:mmsi:undefined'.
C1_EventIffMMSI ==
    (BatchTranslated /\ \A i \in 1..Len(Hub) : IsRecord(Hub[i])) =>
        /\ \A i \in 1..Len(Hub) : Delivered(i) <=> "MMSI" \in DOMAIN Hub[i].o
        /\ \A k \in 1..Len(handled) :
               handled[k].delta.context
                   # Str(<<"vessels.urn:mrn:imo:mmsi:", "undefined">>)

\* C4 as stated: a payload that carries an errors collection, of any length,
\* delivers nothing to app.handleMessage and no exception leaves
\* marineTrafficToDeltas.
C4_ErrorsNoThrow ==
    (/\ lastCall # NoCall
     /\ lastCall.response.t = "object"
     /\ Get(lastCall.response, "errors").t = "array") =>
        /\ handled = <<>>
        /\ ~lastCall.threw

\* C5 as stated: an element that cannot be normalized (null, or no object with
\* fields) yields no delta and does not abort the batch: every well-formed
\* record of the batch is normalized and delivered.
C5_FailuresIsolated ==
    BatchTranslated =>
        \A i \in 1..Len(Hub) :
            /\ ~IsRecord(Hub[i]) => ~Delivered(i)
            /\ (IsRecord(Hub[i]) /\ "MMSI" \in DOMAIN Hub[i].o) => Delivered(i)

(***************************************************************************)
(* Claims about the plugin, checked under Spec                             *)
(***************************************************************************)
\* C6: the deltas one marineTrafficToDeltas call hands to app.handleMessage
\* are those of the batch's records in the batch's order, and whatever the
\* order in which the responses of the tiers arrive, the deltas of one batch
\* are handed over contiguously.
C6_OrderedContiguous ==
    /\ \A i, j \in 1..Len(handled) :
           (i < j /\ handled[i].req = handled[j].req) =>
               /\ handled[i].idx < handled[j].idx
               /\ \A k \in i..j : handled[k].req = handled[i].req
    /\ (BatchTranslated /\ \A i \in 1..Len(Hub) : IsRecord(Hub[i])) =>
           /\ Len(handled) >= Len(Hub)
           /\ \A i \in 1..Len(Hub) :
                  LET h == handled[Len(handled) - Len(Hub) + i]
                  IN /\ h.req = lastCall.req
                     /\ h.idx = i
                     /\ h.delta.context =
                            Str(<<"vessels.urn:mrn:imo:mmsi:">>
                                    \o ToStr(Get(Hub[i], "MMSI")))

\* C6 witness: the response of an earlier request arrived after that of a
\* later one, and its batch of two different records was delivered after the
\* delta of the other batch
C6_Witness ==
    /\ BatchTranslated
    /\ Len(Hub) = 2
    /\ Hub[1] # Hub[2]
    /\ IsRecord(Hub[1])
    /\ IsRecord(Hub[2])
    /\ Len(handled) = 3
    /\ handled[1].req > lastCall.req
    /\ handled[2].req = lastCall.req
    /\ handled[3].req = lastCall.req

\* the rate the options give the tier of a msgtype
RateOf(options, msgType) ==
    CASE msgType = "simple" -> options.simpleRate
      [] msgType = "extended" -> options.extendedRate
      [] msgType = "full" -> options.fullRate

\* C9 as stated: no fetch is ever issued with the msgtype of a tier whose
\* configured rate is negative.
C9_NegativeRateDisabled ==
    \A r \in pending :
        r.endPoint.msgtype # "" => RateOf(r.options, r.endPoint.msgtype) >= 0

\* C10 as stated: from the return of plugin.stop to the next plugin.start no
\* fetch is issued and no delta is delivered to app.handleMessage.
C10_QuietAfterStop ==
    [][(~started /\ ~started') => (handled' = handled /\ pending' \subseteq pending)]_vars

====
